---- MODULE Spec2Model ----
(***************************************************************************)
(* The RFC 3062 Password Modify extended operation of the ldap package:    *)
(* PasswordModifyRequest.encode and Conn.PasswordModify.                   *)
(*                                                                         *)
(* A Go string is a sequence of bytes, and is modelled as one (a tuple of  *)
(* numbers 0..255), so that string(bytes) and []byte(string) are what they *)
(* are in Go.  A *ber.Packet is a record of its fields ClassType, TagType, *)
(* Tag, Value, Data and Children.                                          *)
(***************************************************************************)
EXTENDS Integers, Sequences, FiniteSets, TLC

(***************************************************************************)
(* Bounds of the model.                                                    *)
(***************************************************************************)
\* PasswordModify invocations on the connection
MaxCalls == 2
\* children of the extended response after its LDAPResult fields
MaxExtras == 2

(***************************************************************************)
(* Constants of gopkg.in/asn1-ber.v1 and of the ldap package.              *)
(***************************************************************************)
ClassUniversal == 0
ClassApplication == 64
ClassContext == 128
TypePrimitive == 0
TypeConstructed == 32
TagInteger == 2
TagOctetString == 4
TagEnumerated == 10
TagSequence == 16
ApplicationBindResponse == 1
ApplicationExtendedRequest == 23
ApplicationExtendedResponse == 24
LDAPResultSuccess == 0
LDAPResultReferral == 10
LDAPResultInvalidCredentials == 49
ErrorNetwork == 200
ErrorDebugging == 203
ErrorUnexpectedResponse == 205

\* "1.3.6.1.4.1.4203.1.11.1"
passwordModifyOID ==
    <<49, 46, 51, 46, 54, 46, 49, 46, 52, 46, 49, 46, 52, 50, 48, 51, 46, 49,
      46, 49, 49, 46, 49>>

(***************************************************************************)
(* ber.Packet                                                              *)
(***************************************************************************)
NilValue == [kind |-> "nil", s |-> <<>>, i |-> 0]
StrValue(s) == [kind |-> "str", s |-> s, i |-> 0]
IntValue(i) == [kind |-> "int", s |-> <<>>, i |-> i]

Packet(class, type, tag, value, data, children) ==
    [ClassType |-> class, TagType |-> type, Tag |-> tag, Value |-> value,
     Data |-> data, Children |-> children]

\* ber.Encode with a nil value: no data, no children
Encode(class, type, tag) == Packet(class, type, tag, NilValue, <<>>, <<>>)

\* ber.NewString: the value and its bytes
NewString(class, type, tag, value) ==
    Packet(class, type, tag, StrValue(value), value, <<>>)

\* the minimal two's complement octets of an integer, for 0 <= i < 2^15
EncodeInteger(i) ==
    IF i < 128 THEN <<i>> ELSE <<i \div 256, i % 256>>

\* ber.NewInteger
NewInteger(class, type, tag, value) ==
    Packet(class, type, tag, IntValue(value), EncodeInteger(value), <<>>)

\* the length octets: short form below 128, long form above
EncodeLength(n) ==
    IF n < 128 THEN <<n>>
    ELSE IF n < 256 THEN <<129, n>>
    ELSE <<130, n \div 256, n % 256>>

\* Packet.Bytes: identifier octet (tags below 31), length, data
Bytes(p) ==
    <<p.ClassType + p.TagType + p.Tag>> \o EncodeLength(Len(p.Data)) \o p.Data

\* Packet.AppendChild: the child's bytes go to the data, the child to the children
AppendChild(p, child) ==
    [p EXCEPT !.Data = @ \o Bytes(child), !.Children = Append(@, child)]

RECURSIVE AppendChildren(_, _)
AppendChildren(p, kids) ==
    IF kids = <<>> THEN p
    ELSE AppendChildren(AppendChild(p, Head(kids)), Tail(kids))

\* big-endian value of length octets
RECURSIVE Unsigned(_)
Unsigned(b) ==
    IF b = <<>> THEN 0 ELSE Unsigned(SubSeq(b, 1, Len(b) - 1)) * 256 + b[Len(b)]

RECURSIVE Pow256(_)
Pow256(n) == IF n = 0 THEN 1 ELSE 256 * Pow256(n - 1)

\* two's complement integer of the content octets
ParseInt64(b) ==
    IF b = <<>> THEN 0
    ELSE IF b[1] >= 128 THEN Unsigned(b) - Pow256(Len(b)) ELSE Unsigned(b)

DecodeFailed == [ok |-> FALSE, p |-> Encode(0, 0, 0), rest |-> <<>>]

\* the length octets of a packet: [ok, n, rest].  The indefinite form (0x80)
\* is not among the inputs of the model and is rejected.
readLength(b) ==
    IF b = <<>> THEN [ok |-> FALSE, n |-> 0, rest |-> <<>>]
    ELSE IF b[1] < 128 THEN [ok |-> TRUE, n |-> b[1], rest |-> Tail(b)]
    ELSE LET k == b[1] - 128 IN
         IF k = 0 \/ Len(b) < 1 + k
         THEN [ok |-> FALSE, n |-> 0, rest |-> <<>>]
         ELSE [ok |-> TRUE, n |-> Unsigned(SubSeq(b, 2, 1 + k)),
               rest |-> SubSeq(b, 2 + k, Len(b))]

\* the value ber gives a primitive packet: universal strings and integers
\* are decoded, every other class keeps only its data
DecodeValue(class, tag, content) ==
    IF class # ClassUniversal THEN NilValue
    ELSE IF tag = TagOctetString THEN StrValue(content)
    ELSE IF tag \in {TagInteger, TagEnumerated} THEN IntValue(ParseInt64(content))
    ELSE NilValue

\* ber's packet reader: one packet off the front of the bytes, [ok, p, rest];
\* the children of a constructed packet are read off its content in turn
RECURSIVE readPacket(_), readChildren(_)
readChildren(content) ==
    IF content = <<>> THEN [ok |-> TRUE, kids |-> <<>>]
    ELSE LET one == readPacket(content) IN
         IF ~one.ok THEN [ok |-> FALSE, kids |-> <<>>]
         ELSE LET more == readChildren(one.rest) IN
              [ok |-> more.ok, kids |-> <<one.p>> \o more.kids]

readPacket(b) ==
    IF b = <<>> THEN DecodeFailed
    ELSE LET id == b[1]
             class == (id \div 64) * 64
             type == ((id \div 32) % 2) * 32
             tag == id % 32
             l == readLength(Tail(b))
         IN  IF ~l.ok \/ Len(l.rest) < l.n THEN DecodeFailed
             ELSE LET content == SubSeq(l.rest, 1, l.n)
                      rest == SubSeq(l.rest, l.n + 1, Len(l.rest))
                  IN  IF type = TypeConstructed
                      THEN LET ch == readChildren(content) IN
                           IF ~ch.ok THEN DecodeFailed
                           ELSE [ok |-> TRUE,
                                 p |-> AppendChildren(Encode(class, type, tag), ch.kids),
                                 rest |-> rest]
                      ELSE [ok |-> TRUE,
                            p |-> Packet(class, type, tag,
                                         DecodeValue(class, tag, content),
                                         content, <<>>),
                            rest |-> rest]

\* ber.DecodePacket: the packet, or nil when the bytes do not decode
DecodePacket(data) ==
    LET r == readPacket(data) IN [nil |-> ~r.ok, p |-> r.p]

\* ber.DecodeString: string(data)
DecodeString(data) == data

(***************************************************************************)
(* Errors and results                                                      *)
(***************************************************************************)
NoError == [nil |-> TRUE, ResultCode |-> 0, Err |-> "", arg |-> 0]

\* ldap.NewError(resultCode, err)
NewError(resultCode, msg, arg) ==
    [nil |-> FALSE, ResultCode |-> resultCode, Err |-> msg, arg |-> arg]

NilResult == [nil |-> TRUE, GeneratedPassword |-> <<>>, Referral |-> <<>>]

\* &PasswordModifyResult{}
EmptyResult == [nil |-> FALSE, GeneratedPassword |-> <<>>, Referral |-> <<>>]

\* PasswordModifyRequest
NewPasswordModifyRequest(userIdentity, oldPassword, newPassword) ==
    [UserIdentity |-> userIdentity, OldPassword |-> oldPassword,
     NewPassword |-> newPassword]


(***************************************************************************)
(* PasswordModifyRequest.encode                                            *)
(***************************************************************************)
\* encode with the OldPassword child appended whether or not the field is set
encode_unguarded(r) ==
    LET request0 == Encode(ClassApplication, TypeConstructed, ApplicationExtendedRequest)
        request1 == AppendChild(request0,
                        NewString(ClassContext, TypePrimitive, 0, passwordModifyOID))
        extendedRequestValue == Encode(ClassContext, TypePrimitive, 1)
        value0 == Encode(ClassUniversal, TypeConstructed, TagSequence)
        value1 == IF r.UserIdentity # <<>>
                  THEN AppendChild(value0,
                           NewString(ClassContext, TypePrimitive, 0, r.UserIdentity))
                  ELSE value0
        value2 == AppendChild(value1,
                      NewString(ClassContext, TypePrimitive, 1, r.OldPassword))
        value3 == IF r.NewPassword # <<>>
                  THEN AppendChild(value2,
                           NewString(ClassContext, TypePrimitive, 2, r.NewPassword))
                  ELSE value2
    IN  [packet |-> AppendChild(request1, AppendChild(extendedRequestValue, value3)),
         err |-> NoError]

\* the extended request packet of r, and a nil error
encode(r) ==
    LET request0 == Encode(ClassApplication, TypeConstructed, ApplicationExtendedRequest)
        request1 == AppendChild(request0,
                        NewString(ClassContext, TypePrimitive, 0, passwordModifyOID))
        extendedRequestValue == Encode(ClassContext, TypePrimitive, 1)
        value0 == Encode(ClassUniversal, TypeConstructed, TagSequence)
        value1 == IF r.UserIdentity # <<>>
                  THEN AppendChild(value0,
                           NewString(ClassContext, TypePrimitive, 0, r.UserIdentity))
                  ELSE value0
        value2 == IF r.OldPassword # <<>>
                  THEN AppendChild(value1,
                           NewString(ClassContext, TypePrimitive, 1, r.OldPassword))
                  ELSE value1
        value3 == IF r.NewPassword # <<>>
                  THEN AppendChild(value2,
                           NewString(ClassContext, TypePrimitive, 2, r.NewPassword))
                  ELSE value2
    IN  [packet |-> AppendChild(request1, AppendChild(extendedRequestValue, value3)),
         err |-> NoError]

(***************************************************************************)
(* The collaborators of PasswordModify in the ldap package                 *)
(***************************************************************************)
\* GetLDAPError: the error of the result code the response holds in its first
\* child, nil for success; a response without one is an invalid packet
GetLDAPError(p) ==
    LET response == p.Children[2] IN
    IF Len(response.Children) >= 1 /\ response.Children[1].Value.kind = "int"
    THEN IF response.Children[1].Value.i = LDAPResultSuccess
         THEN NoError
         ELSE NewError(response.Children[1].Value.i, "ldap result", 0)
    ELSE NewError(ErrorNetwork, "Invalid packet format", 0)

\* IsErrorWithCode
IsErrorWithCode(err, desiredResultCode) ==
    ~err.nil /\ err.ResultCode = desiredResultCode

\* PacketResponse.ReadPacket: the packet and the error of the response
ReadPacket(pr) ==
    [packet |-> [nil |-> pr.PacketNil, p |-> pr.Packet], err |-> pr.Error]

\* Conn.finishMessage: the correlation of the message id is dropped
finishMessage(ids, msgID) == ids \ {msgID}

(***************************************************************************)
(* Conn.PasswordModify, after the response arrived                         *)
(***************************************************************************)
Returned(result, err) == [kind |-> "return", result |-> result, err |-> err]
Panicked == [kind |-> "panic", result |-> NilResult, err |-> NoError]
NotReturned == [kind |-> "none", result |-> NilResult, err |-> NoError]

\* ScanReferral stopping at the first child with tag 3
RECURSIVE ScanReferral_first(_, _)
ScanReferral_first(result, children) ==
    IF children = <<>> THEN [panic |-> FALSE, result |-> result]
    ELSE LET child == Head(children) IN
         IF child.Tag = 3
         THEN IF Len(child.Children) = 0 \/ child.Children[1].Value.kind # "str"
              THEN [panic |-> TRUE, result |-> result]
              ELSE [panic |-> FALSE,
                    result |-> [result EXCEPT !.Referral = child.Children[1].Value.s]]
         ELSE ScanReferral_first(result, Tail(children))

\* lines 132-136: the loop over the children of the response that takes the
\* referral of every child with tag 3; the index and the type assertion
\* panic on a child without a string first child.  [panic, result]
RECURSIVE ScanReferral(_, _)
ScanReferral(result, children) ==
    IF children = <<>> THEN [panic |-> FALSE, result |-> result]
    ELSE LET child == Head(children) IN
         IF child.Tag = 3
         THEN IF Len(child.Children) = 0 \/ child.Children[1].Value.kind # "str"
              THEN [panic |-> TRUE, result |-> result]
              ELSE ScanReferral([result EXCEPT !.Referral = child.Children[1].Value.s],
                                Tail(children))
         ELSE ScanReferral(result, Tail(children))

\* ScanGenerated taking the data of the decoded value, not of its child
RECURSIVE ScanGenerated_wholeData(_, _)
ScanGenerated_wholeData(result, children) ==
    IF children = <<>> THEN [panic |-> FALSE, result |-> result]
    ELSE LET child == Head(children) IN
         IF child.Tag = 11
         THEN LET passwordModifyResponseValue == DecodePacket(child.Data) IN
              IF passwordModifyResponseValue.nil
              THEN [panic |-> TRUE, result |-> result]
              ELSE IF /\ Len(passwordModifyResponseValue.p.Children) = 1
                      /\ passwordModifyResponseValue.p.Children[1].Tag = 0
                   THEN ScanGenerated_wholeData(
                            [result EXCEPT !.GeneratedPassword =
                                DecodeString(passwordModifyResponseValue.p.Data)],
                            Tail(children))
                   ELSE ScanGenerated_wholeData(result, Tail(children))
         ELSE ScanGenerated_wholeData(result, Tail(children))

\* ScanGenerated without the check of the tag of the only child
RECURSIVE ScanGenerated_anyTag(_, _)
ScanGenerated_anyTag(result, children) ==
    IF children = <<>> THEN [panic |-> FALSE, result |-> result]
    ELSE LET child == Head(children) IN
         IF child.Tag = 11
         THEN LET passwordModifyResponseValue == DecodePacket(child.Data) IN
              IF passwordModifyResponseValue.nil
              THEN [panic |-> TRUE, result |-> result]
              ELSE IF Len(passwordModifyResponseValue.p.Children) = 1
                   THEN ScanGenerated_anyTag(
                            [result EXCEPT !.GeneratedPassword =
                                DecodeString(passwordModifyResponseValue.p.Children[1].Data)],
                            Tail(children))
                   ELSE ScanGenerated_anyTag(result, Tail(children))
         ELSE ScanGenerated_anyTag(result, Tail(children))

\* lines 145-154: the loop over the children of the extended response that
\* decodes the data of every child with tag 11; a nil decoded packet panics
\* on its Children.  [panic, result]
RECURSIVE ScanGenerated(_, _)
ScanGenerated(result, children) ==
    IF children = <<>> THEN [panic |-> FALSE, result |-> result]
    ELSE LET child == Head(children) IN
         IF child.Tag = 11
         THEN LET passwordModifyResponseValue == DecodePacket(child.Data) IN
              IF passwordModifyResponseValue.nil
              THEN [panic |-> TRUE, result |-> result]
              ELSE IF /\ Len(passwordModifyResponseValue.p.Children) = 1
                      /\ passwordModifyResponseValue.p.Children[1].Tag = 0
                   THEN ScanGenerated(
                            [result EXCEPT !.GeneratedPassword =
                                DecodeString(passwordModifyResponseValue.p.Children[1].Data)],
                            Tail(children))
                   ELSE ScanGenerated(result, Tail(children))
         ELSE ScanGenerated(result, Tail(children))

\* LDAPErrorOutcome taking the referral whatever the result code
LDAPErrorOutcome_anyCode(packet, result, err) ==
    LET s == ScanReferral(result, packet.Children[2].Children) IN
    IF s.panic THEN Panicked ELSE Returned(s.result, err)

\* lines 130-139: the outcome for a response whose result code is no success
LDAPErrorOutcome(packet, result, err) ==
    IF IsErrorWithCode(err, LDAPResultReferral)
    THEN LET s == ScanReferral(result, packet.Children[2].Children) IN
         IF s.panic THEN Panicked ELSE Returned(s.result, err)
    ELSE Returned(result, err)

\* Interpret extracting the result code before it looks at the tag
Interpret_codeFirst(packet, result) ==
    IF Len(packet.Children) < 2 THEN Panicked
    ELSE LET err == GetLDAPError(packet) IN
         IF ~err.nil
         THEN LDAPErrorOutcome(packet, result, err)
         ELSE IF packet.Children[2].Tag = ApplicationExtendedResponse
         THEN LET g == ScanGenerated(result, packet.Children[2].Children) IN
              IF g.panic THEN Panicked ELSE Returned(g.result, NoError)
         ELSE Returned(NilResult,
                       NewError(ErrorUnexpectedResponse, "unexpected Response: %d",
                                packet.Children[2].Tag))

\* Interpret decoding the response value before it looks at the result code
Interpret_valueFirst(packet, result) ==
    IF Len(packet.Children) < 2 THEN Panicked
    ELSE IF packet.Children[2].Tag = ApplicationExtendedResponse
    THEN LET err == GetLDAPError(packet)
             g == ScanGenerated(result, packet.Children[2].Children)
         IN  IF g.panic THEN Panicked
             ELSE IF ~err.nil
             THEN LDAPErrorOutcome(packet, g.result, err)
             ELSE Returned(g.result, NoError)
    ELSE Returned(NilResult,
                  NewError(ErrorUnexpectedResponse, "unexpected Response: %d",
                           packet.Children[2].Tag))

\* lines 128-156: the outcome for a non-nil response packet; the index of
\* line 128 panics on a packet with fewer than two children
Interpret(packet, result) ==
    IF Len(packet.Children) < 2 THEN Panicked
    ELSE IF packet.Children[2].Tag = ApplicationExtendedResponse
    THEN LET err == GetLDAPError(packet) IN
         IF ~err.nil
         THEN LDAPErrorOutcome(packet, result, err)
         ELSE LET g == ScanGenerated(result, packet.Children[2].Children) IN
              IF g.panic THEN Panicked ELSE Returned(g.result, NoError)
    ELSE Returned(NilResult,
                  NewError(ErrorUnexpectedResponse, "unexpected Response: %d",
                           packet.Children[2].Tag))

\* lines 111-156: the outcome for a delivered response; addFails is the
\* result of addLDAPDescriptions, called only when the connection debugs
AfterResponse(pr, debug, addFails, result) ==
    LET rp == ReadPacket(pr) IN
    IF ~rp.err.nil THEN Returned(NilResult, rp.err)
    ELSE IF rp.packet.nil
    THEN Returned(NilResult,
                  NewError(ErrorNetwork, "ldap: could not retrieve message", 0))
    ELSE IF debug /\ addFails
    THEN Returned(NilResult,
                  NewError(ErrorDebugging, "ldap: cannot process packet to add descriptions", 0))
    ELSE Interpret(rp.packet.p, result)

\* ChannelClosedOutcome returning the result allocated at line 104
ChannelClosedOutcome_withResult ==
    Returned(EmptyResult, NewError(ErrorNetwork, "ldap: response channel closed", 0))

\* line 109: the outcome for a closed response channel
ChannelClosedOutcome ==
    Returned(NilResult, NewError(ErrorNetwork, "ldap: response channel closed", 0))


(***************************************************************************)
(* The inputs of the model                                                 *)
(***************************************************************************)
\* "", "a", "b", "ab"
FieldValues == {<<>>, <<97>>, <<98>>, <<97, 98>>}

AllRequests ==
    {NewPasswordModifyRequest(u, o, n) : u \in FieldValues, o \in FieldValues,
                                         n \in FieldValues}

\* the requests of the calls on the connection
CallRequests ==
    {NewPasswordModifyRequest(<<>>, <<>>, <<>>),
     NewPasswordModifyRequest(<<97>>, <<98>>, <<>>)}

\* the bytes a response carries as its value
ValueData ==
    {<<48, 3, 128, 1, 71>>,           \* SEQUENCE { [0] "G" }
     <<48, 4, 128, 2, 72, 105>>,      \* SEQUENCE { [0] "Hi" }
     <<48, 0>>,                       \* SEQUENCE { }
     <<48, 3, 129, 1, 71>>,           \* SEQUENCE { [1] "G" }
     <<48, 6, 128, 1, 71, 128, 1, 72>>, \* SEQUENCE { [0] "G", [0] "H" }
     <<48, 5, 128, 1>>}               \* truncated

\* the children of a referral: none, one URI, another URI, an integer
ReferralChildren ==
    {<<>>,
     <<NewString(ClassUniversal, TypePrimitive, TagOctetString, <<120>>)>>,
     <<NewString(ClassUniversal, TypePrimitive, TagOctetString, <<121>>),
       NewString(ClassUniversal, TypePrimitive, TagOctetString, <<122>>)>>,
     <<NewInteger(ClassUniversal, TypePrimitive, TagInteger, 7)>>}

\* the children a server may put after the LDAPResult fields: referrals
\* (tag 3) and response values (tag 11)
ExtraPool ==
    {AppendChildren(Encode(ClassContext, TypeConstructed, 3), k) : k \in ReferralChildren}
    \cup {Packet(ClassContext, TypePrimitive, 11, NilValue, d, <<>>) : d \in ValueData}

Extras == UNION {[1..n -> ExtraPool] : n \in 0..MaxExtras}

\* resultCode, matchedDN, diagnosticMessage
LDAPResult(code) ==
    <<NewInteger(ClassUniversal, TypePrimitive, TagEnumerated, code),
      NewString(ClassUniversal, TypePrimitive, TagOctetString, <<>>),
      NewString(ClassUniversal, TypePrimitive, TagOctetString, <<>>)>>

ResultCodes == {LDAPResultSuccess, LDAPResultReferral, LDAPResultInvalidCredentials}

\* the operation payloads of a response: extended responses with every
\* choice of children, responses of another type with at most one extra child
Responses ==
    {AppendChildren(Encode(ClassApplication, TypeConstructed, ApplicationExtendedResponse),
                    pre \o ex) :
        pre \in {<<>>} \cup {LDAPResult(c) : c \in ResultCodes},
        ex \in Extras}
    \cup
    {AppendChildren(Encode(ClassApplication, TypeConstructed, ApplicationBindResponse),
                    pre \o ex) :
        pre \in {<<>>} \cup {LDAPResult(c) : c \in ResultCodes},
        ex \in {e \in Extras : Len(e) <= 1}}

\* the response envelopes for a message id: the id and the payload, or fewer
Envelopes(msgID) ==
    LET idPacket == NewInteger(ClassUniversal, TypePrimitive, TagInteger, msgID)
        envelope == Encode(ClassUniversal, TypeConstructed, TagSequence)
    IN  {envelope, AppendChild(envelope, idPacket)}
        \cup {AppendChildren(envelope, <<idPacket, r>>) : r \in Responses}

NoPacket == Encode(0, 0, 0)

\* what the response channel may deliver
PacketResponses(msgID) ==
    {[PacketNil |-> FALSE, Packet |-> e, Error |-> NoError] : e \in Envelopes(msgID)}
    \cup {[PacketNil |-> TRUE, Packet |-> NoPacket, Error |-> NoError]}
    \cup {[PacketNil |-> TRUE, Packet |-> NoPacket, Error |-> NewError(c, "read", 0)] :
            c \in {ErrorNetwork, ErrorUnexpectedResponse}}

NoResponse ==
    [state |-> "none", PacketNil |-> TRUE, Packet |-> NoPacket, Error |-> NoError]

(***************************************************************************)
(* The state                                                               *)
(***************************************************************************)
VARIABLES
    pc,            \* where the call is: "idle", "sending", "waiting", "done"
    Debug,         \* l.Debug
    messageID,     \* the next message id of the connection
    inflight,      \* the message ids the connection holds a correlation for
    req,           \* passwordModifyRequest
    encoded,       \* encodedPasswordModifyRequest, err of line 90
    packet,        \* packet: the request, then the response
    msgCtxID,      \* msgCtx.id
    deferred,      \* whether line 102 deferred finishMessage
    result,        \* result
    resp,          \* what the response channel gave the call
    addFailed,     \* whether addLDAPDescriptions returned an error
    ret,           \* what the call returned
    allocated,     \* message ids the call allocated
    sent,          \* sendMessage calls of the call
    sendOK,        \* whether sendMessage returned no error
    finished       \* finishMessage calls of the call

vars ==
    <<pc, Debug, messageID, inflight, req, encoded, packet, msgCtxID, deferred,
      result, resp, addFailed, ret, allocated, sent, sendOK, finished>>

NoEncoded == [packet |-> NoPacket, err |-> NoError]

Init ==
    /\ pc = "idle"
    /\ Debug \in BOOLEAN
    /\ messageID = 1
    /\ inflight = {}
    /\ req = NewPasswordModifyRequest(<<>>, <<>>, <<>>)
    /\ encoded = NoEncoded
    /\ packet = [nil |-> TRUE, p |-> NoPacket]
    /\ msgCtxID = 0
    /\ deferred = FALSE
    /\ result = NilResult
    /\ resp = NoResponse
    /\ addFailed = FALSE
    /\ ret = NotReturned
    /\ allocated = 0
    /\ sent = 0
    /\ sendOK = FALSE
    /\ finished = 0

\* Return with finishMessage called at the return statements, not deferred
Return_noDefer(outcome) ==
    /\ ret' = outcome
    /\ pc' = "done"
    /\ finished' = IF deferred /\ outcome.kind = "return" THEN finished + 1 ELSE finished
    /\ inflight' = IF deferred /\ outcome.kind = "return"
                   THEN finishMessage(inflight, msgCtxID) ELSE inflight

\* a return of the call: the deferred finishMessage runs, also on a panic
Return(outcome) ==
    /\ ret' = outcome
    /\ pc' = "done"
    /\ finished' = IF deferred THEN finished + 1 ELSE finished
    /\ inflight' = IF deferred THEN finishMessage(inflight, msgCtxID) ELSE inflight

\* lines 86-96: the request packet with a new message id and the encoded request
Call(r) ==
    /\ pc \in {"idle", "done"}
    /\ messageID <= MaxCalls
    /\ LET packet0 == AppendChild(Encode(ClassUniversal, TypeConstructed, TagSequence),
                          NewInteger(ClassUniversal, TypePrimitive, TagInteger, messageID))
           e == encode(r)
       IN  /\ req' = r
           /\ encoded' = e
           /\ messageID' = messageID + 1
           /\ msgCtxID' = messageID
           /\ allocated' = 1
           /\ sent' = 0
           /\ sendOK' = FALSE
           /\ deferred' = FALSE
           /\ result' = NilResult
           /\ resp' = NoResponse
           /\ addFailed' = FALSE
           /\ IF ~e.err.nil
              THEN /\ packet' = [nil |-> FALSE, p |-> packet0]
                   /\ ret' = Returned(NilResult, e.err)
                   /\ pc' = "done"
                   /\ finished' = 0
              ELSE /\ packet' = [nil |-> FALSE, p |-> AppendChild(packet0, e.packet)]
                   /\ ret' = NotReturned
                   /\ pc' = "sending"
                   /\ finished' = 0
    /\ UNCHANGED <<Debug, inflight>>

\* lines 98-101: sendMessage fails and the call returns its error
SendMessageFails ==
    /\ pc = "sending"
    /\ sent' = sent + 1
    /\ sendOK' = FALSE
    /\ Return(Returned(NilResult, NewError(ErrorNetwork, "ldap: connection closed", 0)))
    /\ UNCHANGED <<Debug, messageID, req, encoded, packet, msgCtxID, deferred, result,
                   resp, addFailed, allocated>>

\* lines 98-106: sendMessage registers the message, finishMessage is deferred
SendMessageSucceeds ==
    /\ pc = "sending"
    /\ sent' = sent + 1
    /\ sendOK' = TRUE
    /\ inflight' = inflight \cup {msgCtxID}
    /\ deferred' = TRUE
    /\ result' = EmptyResult
    /\ pc' = "waiting"
    /\ UNCHANGED <<Debug, messageID, req, encoded, packet, msgCtxID, resp, addFailed,
                   ret, allocated, finished>>

\* lines 107-110: the response channel is closed
ChannelClosed ==
    /\ pc = "waiting"
    /\ resp' = [NoResponse EXCEPT !.state = "closed"]
    /\ Return(ChannelClosedOutcome)
    /\ UNCHANGED <<Debug, messageID, req, encoded, packet, msgCtxID, deferred, result,
                   addFailed, allocated, sent, sendOK>>

\* lines 107-157: the response pr is delivered and the call runs to its return
Deliver(pr, addFails) ==
    LET outcome == AfterResponse(pr, Debug, addFails, result) IN
    /\ resp' = [state |-> "delivered", PacketNil |-> pr.PacketNil,
                Packet |-> pr.Packet, Error |-> pr.Error]
    /\ packet' = ReadPacket(pr).packet
    /\ addFailed' = (Debug /\ pr.Error.nil /\ ~pr.PacketNil /\ addFails)
    /\ result' = IF outcome.kind = "return" /\ ~outcome.result.nil
                 THEN outcome.result ELSE result
    /\ Return(outcome)
    /\ UNCHANGED <<Debug, messageID, req, encoded, msgCtxID, deferred, allocated, sent,
                   sendOK>>

ResponseDelivered ==
    /\ pc = "waiting"
    /\ \E pr \in PacketResponses(msgCtxID), addFails \in BOOLEAN : Deliver(pr, addFails)

Next ==
    \/ \E r \in CallRequests : Call(r)
    \/ SendMessageFails
    \/ SendMessageSucceeds
    \/ ChannelClosed
    \/ ResponseDelivered

Spec == Init /\ [][Next]_vars


(***************************************************************************)
(* encode as a function of the request: every request is an input          *)
(***************************************************************************)
InitEncode ==
    /\ pc = "request"
    /\ Debug = FALSE
    /\ messageID = 1
    /\ inflight = {}
    /\ req \in AllRequests
    /\ encoded = NoEncoded
    /\ packet = [nil |-> TRUE, p |-> NoPacket]
    /\ msgCtxID = 0
    /\ deferred = FALSE
    /\ result = NilResult
    /\ resp = NoResponse
    /\ addFailed = FALSE
    /\ ret = NotReturned
    /\ allocated = 0
    /\ sent = 0
    /\ sendOK = FALSE
    /\ finished = 0

\* line 90
EncodeRequest ==
    /\ pc = "request"
    /\ encoded' = encode(req)
    /\ pc' = "encoded"
    /\ UNCHANGED <<Debug, messageID, inflight, req, packet, msgCtxID, deferred, result,
                   resp, addFailed, ret, allocated, sent, sendOK, finished>>

NextEncode == EncodeRequest

SpecEncode == InitEncode /\ [][NextEncode]_vars


(***************************************************************************)
(* Properties                                                              *)
(***************************************************************************)
Max(S) == CHOOSE x \in S : \A y \in S : y <= x

\* the fields of the request in the order of their tags 0, 1, 2
Fields == <<req.UserIdentity, req.OldPassword, req.NewPassword>>

\* the universal sequence inside the request value of the encoded request
InnerSequence == encoded.packet.Children[2].Children[1]

\* the inner sequence as a receiver reads it off the bytes of the request
WireSequence ==
    LET outer == DecodePacket(Bytes(encoded.packet)) IN
    IF outer.nil \/ Len(outer.p.Children) # 2 THEN [nil |-> TRUE, p |-> NoPacket]
    ELSE DecodePacket(outer.p.Children[2].Data)

\* C1: encode returns no error, and the inner sequence of the payload holds
\* exactly one context-tagged child for each non-empty field and none for an
\* empty one, with the value of the field, tag 0 for UserIdentity, 1 for
\* OldPassword and 2 for NewPassword, in increasing order of the tags; the
\* bytes of the payload decode to the same children.
EncodeEmitsNonEmptyFields ==
    pc \notin {"request", "idle"} =>
        LET kids == InnerSequence.Children IN
        /\ encoded.err.nil
        /\ InnerSequence.ClassType = ClassUniversal
        /\ InnerSequence.Tag = TagSequence
        /\ Len(kids) = Cardinality({i \in 1..3 : Fields[i] # <<>>})
        /\ \A i \in 1..3 :
              LET at == {k \in 1..Len(kids) : kids[k].Tag = i - 1} IN
              IF Fields[i] = <<>> THEN at = {}
              ELSE /\ Cardinality(at) = 1
                   /\ \A k \in at : /\ kids[k].ClassType = ClassContext
                                    /\ kids[k].Value = StrValue(Fields[i])
        /\ \A k \in 1..(Len(kids) - 1) : kids[k].Tag < kids[k + 1].Tag
        /\ ~WireSequence.nil
        /\ Len(WireSequence.p.Children) = Len(kids)
        /\ \A k \in 1..Len(kids) :
              /\ WireSequence.p.Children[k].Tag = kids[k].Tag
              /\ WireSequence.p.Children[k].ClassType = ClassContext
              /\ DecodeString(WireSequence.p.Children[k].Data) = kids[k].Value.s

\* a request with the first field empty and the other two set was encoded
EncodedTwoOfThree ==
    /\ pc = "encoded"
    /\ req.UserIdentity = <<>>
    /\ req.OldPassword = <<97, 98>>
    /\ req.NewPassword = <<98>>
    /\ Len(InnerSequence.Children) = 2

\* the call got a response packet and reached the tag check of line 128
Interpreted ==
    /\ pc = "done"
    /\ resp.state = "delivered"
    /\ resp.Error.nil
    /\ ~resp.PacketNil
    /\ ~addFailed

\* the second top-level child of the response is an extended response
IsExtendedResponse ==
    /\ Len(resp.Packet.Children) >= 2
    /\ resp.Packet.Children[2].Tag = ApplicationExtendedResponse

ResponseChildren == resp.Packet.Children[2].Children

\* the error of the result code of the response
ResponseError == GetLDAPError(resp.Packet)

\* the positions of the children of the response with a tag
ChildrenTagged(tag) ==
    {k \in 1..Len(ResponseChildren) : ResponseChildren[k].Tag = tag}

\* every tag-3 child has a first child that holds a string
ReferralsHaveURI ==
    \A k \in ChildrenTagged(3) :
        /\ Len(ResponseChildren[k].Children) >= 1
        /\ ResponseChildren[k].Children[1].Value.kind = "str"

\* the payload of the tag-11 child at k parses
ValueParses(k) == ~DecodePacket(ResponseChildren[k].Data).nil

\* the payload of the tag-11 child at k parses to exactly one child tagged 0
ValueHasPassword(k) ==
    LET v == DecodePacket(ResponseChildren[k].Data) IN
    /\ ~v.nil
    /\ Len(v.p.Children) = 1
    /\ v.p.Children[1].Tag = 0

\* the bytes of a response value that holds the generated password g
ResponseValueBytes(g) ==
    Bytes(AppendChild(Encode(ClassUniversal, TypeConstructed, TagSequence),
                      NewString(ClassContext, TypePrimitive, 0, g)))

ReferralResponse ==
    /\ Interpreted
    /\ IsExtendedResponse
    /\ IsErrorWithCode(ResponseError, LDAPResultReferral)
    /\ ChildrenTagged(3) # {}
    /\ ReferralsHaveURI

\* C2: for an extended response with the referral result code and a tag-3
\* child (every tag-3 child holding a string first child), the call returns the
\* error of the result code and a non-nil result whose Referral is the string
\* of the first child of the tag-3 child, of the last one when there are several.
ReferralReturnedWithError ==
    ReferralResponse =>
        /\ ret.kind = "return"
        /\ ~ret.err.nil
        /\ ret.err = ResponseError
        /\ ~ret.result.nil
        /\ ret.result.Referral =
               ResponseChildren[Max(ChildrenTagged(3))].Children[1].Value.s
        /\ ret.result.GeneratedPassword = <<>>

\* a referral response with two tag-3 children was interpreted
ReferralSeen ==
    /\ ReferralResponse
    /\ Cardinality(ChildrenTagged(3)) = 2
    /\ ResponseChildren[Max(ChildrenTagged(3))].Children[1].Value.s = <<121>>
    /\ ret.result.Referral = <<121>>

OtherFailureResponse ==
    /\ Interpreted
    /\ IsExtendedResponse
    /\ ~ResponseError.nil
    /\ ~IsErrorWithCode(ResponseError, LDAPResultReferral)

\* C3 as stated: for an extended response whose result code is a failure
\* other than the referral code, the call returns a nil result and that error.
OtherFailureReturnsNilResult ==
    OtherFailureResponse =>
        /\ ret.kind = "return"
        /\ ret.result.nil
        /\ ret.err = ResponseError

\* C3 amended: for an extended response whose result code is a failure other
\* than the referral code, the call returns that error at once, together with
\* a non-nil result whose GeneratedPassword and Referral are both empty.
OtherFailureReturnsEmptyResult ==
    OtherFailureResponse =>
        /\ ret.kind = "return"
        /\ ret.err = ResponseError
        /\ ret.result = EmptyResult

\* a failure that is no referral was interpreted, its response holding a
\* tag-3 child and a response value
OtherFailureSeen ==
    /\ OtherFailureResponse
    /\ ResponseError.ResultCode = LDAPResultInvalidCredentials
    /\ ChildrenTagged(3) # {}
    /\ \E k \in ChildrenTagged(11) : ValueHasPassword(k)
    /\ ret.kind = "return"

UnexpectedResponse ==
    /\ Interpreted
    /\ Len(resp.Packet.Children) >= 2
    /\ resp.Packet.Children[2].Tag # ApplicationExtendedResponse

\* C4: when the tag of the second top-level child is not the extended
\* response tag, the call returns no result and an unexpected-response error
\* that carries the tag, whatever result code the response holds.
UnexpectedTagRejected ==
    UnexpectedResponse =>
        /\ ret.kind = "return"
        /\ ret.result.nil
        /\ ~ret.err.nil
        /\ ret.err.ResultCode = ErrorUnexpectedResponse
        /\ ret.err.arg = resp.Packet.Children[2].Tag

\* a response of another type that holds the referral result code was rejected
UnexpectedTagSeen ==
    /\ UnexpectedResponse
    /\ IsErrorWithCode(ResponseError, LDAPResultReferral)
    /\ ChildrenTagged(3) # {}
    /\ ret.err.arg = ApplicationBindResponse

\* C5: when the response envelope has fewer than two top-level children, the
\* call returns a malformed-response error to the caller; it does not panic.
\* Stated for a connection that does not debug, where nothing but
\* PasswordModify looks at the packet.
ShortEnvelopeRejected ==
    (/\ pc = "done"
     /\ ~Debug
     /\ resp.state = "delivered"
     /\ resp.Error.nil
     /\ ~resp.PacketNil
     /\ Len(resp.Packet.Children) < 2)
        => /\ ret.kind = "return"
           /\ ~ret.err.nil

SuccessResponse ==
    /\ Interpreted
    /\ IsExtendedResponse
    /\ ResponseError.nil
    /\ \A k \in ChildrenTagged(11) : ValueParses(k)

\* C6: for an extended response with a success result code and a tag-11 child
\* whose payload parses to a tree with exactly one child tagged 0, the call
\* returns no error and a result whose GeneratedPassword is the string of that
\* child (of the last such tag-11 child when there are several) and whose
\* Referral is empty; a payload built for the password g gives g back.
GeneratedPasswordReturned ==
    (SuccessResponse /\ \E k \in ChildrenTagged(11) : ValueHasPassword(k)) =>
        LET last == Max({k \in ChildrenTagged(11) : ValueHasPassword(k)}) IN
        /\ ret.kind = "return"
        /\ ret.err.nil
        /\ ~ret.result.nil
        /\ ret.result.GeneratedPassword =
               DecodePacket(ResponseChildren[last].Data).p.Children[1].Data
        /\ ret.result.Referral = <<>>
        /\ \A g \in {<<71>>, <<72, 105>>} :
              ResponseChildren[last].Data = ResponseValueBytes(g)
                  => ret.result.GeneratedPassword = g

\* a success response whose value holds the password "Hi" was interpreted
GeneratedPasswordSeen ==
    /\ SuccessResponse
    /\ \E k \in ChildrenTagged(11) :
          /\ ValueHasPassword(k)
          /\ ResponseChildren[k].Data = ResponseValueBytes(<<72, 105>>)
    /\ ret.result.GeneratedPassword = <<72, 105>>

\* C7: for an extended response with a success result code and no tag-11
\* child, or with tag-11 children whose parsed payload is not exactly one child
\* tagged 0, the call returns no error and a result whose GeneratedPassword is
\* empty.
NoGeneratedPassword ==
    (SuccessResponse /\ \A k \in ChildrenTagged(11) : ~ValueHasPassword(k)) =>
        /\ ret.kind = "return"
        /\ ret.err.nil
        /\ ~ret.result.nil
        /\ ret.result.GeneratedPassword = <<>>

\* a success response was interpreted whose value holds one child tagged 1
OtherShapeSeen ==
    /\ SuccessResponse
    /\ \A k \in ChildrenTagged(11) : ~ValueHasPassword(k)
    /\ \E k \in ChildrenTagged(11) :
          LET v == DecodePacket(ResponseChildren[k].Data) IN
          Len(v.p.Children) = 1 /\ v.p.Children[1].Tag = 1
    /\ ret.kind = "return"

NetworkErrorNoResult ==
    /\ ret.kind = "return"
    /\ ret.result.nil
    /\ ~ret.err.nil
    /\ ret.err.ResultCode = ErrorNetwork

\* C8: after the request was sent, when the response channel is closed without
\* a value the call returns a network error and no result; likewise when a
\* response is delivered that holds neither a packet nor an error.
ClosedOrEmptyIsNetworkError ==
    /\ (pc = "done" /\ sendOK /\ resp.state = "closed") => NetworkErrorNoResult
    /\ (pc = "done" /\ sendOK /\ resp.state = "delivered" /\ resp.Error.nil
            /\ resp.PacketNil) => NetworkErrorNoResult

\* the call returned after its response channel was closed
ChannelClosedSeen ==
    /\ pc = "done"
    /\ sendOK
    /\ resp.state = "closed"
    /\ ret.err.Err = "ldap: response channel closed"

\* C9: a returned result has a non-empty Referral only with an error of the
\* referral result code, and a non-empty GeneratedPassword only with no
\* error; no returned result has both.
ResultFieldsExclusive ==
    (pc = "done" /\ ret.kind = "return" /\ ~ret.result.nil) =>
        /\ ret.result.Referral # <<>> => IsErrorWithCode(ret.err, LDAPResultReferral)
        /\ ret.result.GeneratedPassword # <<>> => ret.err.nil
        /\ ~(ret.result.Referral # <<>> /\ ret.result.GeneratedPassword # <<>>)

\* a referral was returned for a response that also holds a generated password
ReferralWithValueSeen ==
    /\ ReferralResponse
    /\ \E k \in ChildrenTagged(11) : ValueHasPassword(k)
    /\ ret.kind = "return"
    /\ ret.result.Referral # <<>>

\* C10: a call allocates one message id and sends at most one message, and
\* finishMessage runs exactly once, at the return, when sendMessage succeeded
\* and never when it failed: the correlation of the message id is held while
\* the call waits and is released when it is done.
OneMessageOneRelease ==
    /\ allocated <= 1
    /\ sent <= 1
    /\ pc \in {"sending", "waiting", "done"} =>
          /\ allocated = 1
          /\ messageID = msgCtxID + 1
    /\ pc \in {"waiting", "done"} => sent = 1
    /\ pc # "done" => finished = 0
    /\ pc = "waiting" => msgCtxID \in inflight
    /\ pc = "done" =>
          /\ finished = (IF sendOK THEN 1 ELSE 0)
          /\ msgCtxID \notin inflight
          /\ inflight = {}

\* the second call on the connection panicked after its message was sent
ReleasedOnPanic ==
    /\ pc = "done"
    /\ msgCtxID = 2
    /\ sendOK
    /\ ret.kind = "panic"
    /\ finished = 1

====
